---- MODULE Spec2Model ----
(***************************************************************************)
(* Model of the dispatcher of gemini-mcp-server (src/src/main.rs):         *)
(* the shared AppState (work queue, correlation table, watch notifier)     *)
(* behind one tokio Mutex, the bridge run_roblox_tool, the long-poll       *)
(* pickup request_handler, the result submission response_handler and the  *)
(* orchestrator gemini_handler with extract_code.                          *)
(***************************************************************************)
EXTENDS Integers, Sequences, FiniteSets, TLC

\* ---------------------------------------------------------------- bounds
NBridge == 2        \* concurrent callers of run_roblox_tool / gemini_handler
NPickup == 2        \* concurrent GET /request calls
MaxSubmits == 2     \* POST /response calls made by the worker
TickSeconds == 8    \* granularity of the clock, in seconds
MaxFragments == 3   \* responses of the text-generation API per prompt

\* ------------------------------------------------------ program constants
LONG_POLL_DURATION == 15

Bridges == 1..NBridge
Pickups == 1..NPickup

\* identifiers that were never issued by Uuid::new_v4()
UnknownIds == {0}

\* ------------------------------------------------------------- characters
\* "~" stands for the backquote character
OpenFence == <<"~", "~", "~", "l", "u", "a", "u">>
CloseFence == <<"~", "~", "~">>
Whitespace == {" ", "\n"}
Ret1 == <<"r", "e", "t", "u", "r", "n", " ", "1">>
Print1 == <<"p", "r", "i", "n", "t", "(", "1", ")">>

\* arguments of direct bridge calls, payloads of the worker's results
Commands == {Print1}
Payloads == {"1", "2"}

\* text fragments the text-generation API may return in one response
Fragments ==
    { OpenFence \o <<"\n">>,
      Ret1,
      <<"\n">> \o CloseFence,
      <<"h", "i", " ">>,
      OpenFence \o <<"\n">> \o Ret1 \o <<"\n">> \o CloseFence,
      <<>> }

\* processes of the smaller specifications
LiveBridges == {1}
LivePickups == {1, 2}
OrchBridges == {1}
OrchPickups == {1}

VARIABLES
    process_queue,   \* AppState.process_queue : sequence of [args, id]
    output_map,      \* AppState.output_map : id -> bridge whose rx the tx feeds
    version,         \* version of the watch channel shared by trigger/waiter
    waiter,          \* version last seen by AppState.waiter
    lock,            \* holder of the Mutex, <<>> when free
    next_id,         \* number of identifiers generated so far
    chan,            \* per bridge: values buffered in its mpsc channel
    bridge,          \* per bridge call: [pc, args, id, result]
    pickup,          \* per pickup call: [pc, seen, elapsed, outcome] and the
                     \* history field checked_at: the notifier's version
                     \* when the call last found the queue empty
    handler,         \* per prompt request: [pc, full_text, calls, response]
    submissions,     \* history of finished submissions: [id, response, status]
    sub,             \* the submission in progress: [pc, id, response]
    enqueued,        \* history: ids in the order they were pushed
    popped,          \* history: ids in the order they were popped
    dropped          \* history: number of "receiver dropped" log lines

vars == <<process_queue, output_map, version, waiter, lock, next_id, chan,
          bridge, pickup, handler, submissions, sub, enqueued, popped, dropped>>

Free == <<>>

\* ------------------------------------------------------------ AppState::new
NewBridge == [pc |-> "idle", args |-> <<>>, id |-> 0, result |-> <<>>]
NewPickup == [pc |-> "idle", seen |-> 0, elapsed |-> 0, outcome |-> <<>>,
              checked_at |-> 0]
NewHandler == [pc |-> "idle", full_text |-> <<>>, calls |-> 0, response |-> <<>>]

Init ==
    /\ process_queue = <<>>
    /\ output_map = <<>>
    /\ version = 0
    /\ waiter = 0
    /\ lock = Free
    /\ next_id = 0
    /\ chan = [b \in Bridges |-> <<>>]
    /\ bridge = [b \in Bridges |-> NewBridge]
    /\ pickup = [p \in Pickups |-> NewPickup]
    /\ handler = [b \in Bridges |-> NewHandler]
    /\ submissions = <<>>
    /\ sub = [pc |-> "idle", id |-> 0, response |-> ""]
    /\ enqueued = <<>>
    /\ popped = <<>>
    /\ dropped = 0

\* ----------------------------------------------------------------- helpers
\* the mpsc receiver of bridge b exists from its creation to the return
RxAlive(b) == bridge[b].pc \in {"recv", "lock2", "cs2"}

\* some Sender for bridge b's channel is still stored in the table
SenderAlive(b) == \E i \in DOMAIN output_map : output_map[i] = b

\* the trigger is a field of AppState and lives as long as the state does
TriggerDropped == FALSE

\* the MutexGuard goes out of scope: the lock is free again
KeepGuard(holder) == holder
DropGuard(holder) == Free

MapInsertNothing(m, i, b) == m
MapInsert(m, i, b) == [k \in DOMAIN m \cup {i} |-> IF k = i THEN b ELSE m[k]]
MapClear(m, i) == <<>>
MapKeep(m, i) == m
MapRemove(m, i) == [k \in DOMAIN m \ {i} |-> m[k]]

\* ------------------------------------------------------------- extract_code
\* str::find : byte offset of the first occurrence of pat in text, if any
Find(text, pat) ==
    LET hits == {i \in 0..(Len(text) - Len(pat)) :
                    SubSeq(text, i + 1, i + Len(pat)) = pat}
    IN IF hits = {} THEN <<"None">>
       ELSE <<"Some", CHOOSE i \in hits : \A j \in hits : i <= j>>

\* text[from..to]
Slice(text, from, to) == SubSeq(text, from + 1, to)

RECURSIVE TrimStart(_)
TrimStart(s) ==
    IF s # <<>> /\ Head(s) \in Whitespace THEN TrimStart(Tail(s)) ELSE s

RECURSIVE TrimEnd(_)
TrimEnd(s) ==
    IF s # <<>> /\ s[Len(s)] \in Whitespace
    THEN TrimEnd(SubSeq(s, 1, Len(s) - 1)) ELSE s

Trim(s) == TrimEnd(TrimStart(s))

TagLen == 7

CodeRangeFromStart(text, start) ==
    LET rest == Find(Slice(text, start, Len(text)), CloseFence)
    IN IF rest[1] = "None" THEN <<"None">>
       ELSE <<"Some", <<start, start + TagLen + rest[2]>>>>

\* the range of text that extract_code slices, given the offset of the fence
CodeRange(text, start) ==
    LET rest == Find(Slice(text, start + TagLen, Len(text)), CloseFence)
    IN IF rest[1] = "None" THEN <<"None">>
       ELSE <<"Some", <<start, start + TagLen + rest[2]>>>>

extract_code(text) ==
    LET open == Find(text, OpenFence)
    IN IF open[1] = "None" THEN <<"None">>
       ELSE LET range == CodeRange(text, open[2])
            IN IF range[1] = "None" THEN <<"None">>
               ELSE <<"Some", Trim(Slice(text, range[2][1], range[2][2]))>>

\* ---------------------------------------------------------- run_roblox_tool
BridgeCall(b, a) ==
    /\ bridge[b].pc = "idle"
    /\ handler[b].pc = "idle"
    /\ bridge' = [bridge EXCEPT ![b].pc = "lock1", ![b].args = a]
    /\ UNCHANGED <<process_queue, output_map, version, waiter, lock, next_id,
                   chan, pickup, handler, submissions, sub, enqueued, popped,
                   dropped>>

BridgeLock1(b) ==
    /\ bridge[b].pc = "lock1"
    /\ lock = Free
    /\ lock' = <<"bridge", b>>
    /\ bridge' = [bridge EXCEPT ![b].pc = "cs1"]
    /\ UNCHANGED <<process_queue, output_map, version, waiter, next_id, chan,
                   pickup, handler, submissions, sub, enqueued, popped, dropped>>

PushFront(q, item) == <<item>> \o q
PushBack(q, item) == Append(q, item)

\* watch::Sender::send(()) : a new version of the watched value
SendNothing(v) == v
Send(v) == v + 1

BridgeEnqueue(b) ==
    /\ bridge[b].pc = "cs1"
    /\ lock = <<"bridge", b>>
    /\ LET id == next_id + 1
           tool_call == [args |-> bridge[b].args, id |-> id]
       IN /\ next_id' = id
          /\ process_queue' = PushBack(process_queue, tool_call)
          /\ output_map' = MapInsert(output_map, id, b)
          /\ version' = Send(version)
          /\ enqueued' = Append(enqueued, id)
          /\ bridge' = [bridge EXCEPT ![b].pc = "recv", ![b].id = id]
    /\ lock' = DropGuard(lock)
    /\ UNCHANGED <<waiter, chan, pickup, handler, submissions, sub, popped,
                   dropped>>

ReceivedLast(b) == chan[b][Len(chan[b])]
Received(b) == Head(chan[b])

BridgeRecv(b) ==
    /\ bridge[b].pc = "recv"
    /\ IF chan[b] # <<>>
       THEN /\ bridge' = [bridge EXCEPT ![b].pc = "lock2",
                                        ![b].result = Received(b)]
            /\ chan' = [chan EXCEPT ![b] = Tail(chan[b])]
       ELSE /\ ~SenderAlive(b)
            /\ bridge' = [bridge EXCEPT ![b].pc = "returned",
                                        ![b].result = <<"Err", "ChannelClosed">>]
            /\ UNCHANGED chan
    /\ UNCHANGED <<process_queue, output_map, version, waiter, lock, next_id,
                   pickup, handler, submissions, sub, enqueued, popped, dropped>>

BridgeLock2(b) ==
    /\ bridge[b].pc = "lock2"
    /\ lock = Free
    /\ lock' = <<"bridge", b>>
    /\ bridge' = [bridge EXCEPT ![b].pc = "cs2"]
    /\ UNCHANGED <<process_queue, output_map, version, waiter, next_id, chan,
                   pickup, handler, submissions, sub, enqueued, popped, dropped>>

BridgeCleanup(b) ==
    /\ bridge[b].pc = "cs2"
    /\ lock = <<"bridge", b>>
    /\ output_map' = MapRemove(output_map, bridge[b].id)
    /\ bridge' = [bridge EXCEPT ![b].pc = "returned"]
    /\ lock' = DropGuard(lock)
    /\ UNCHANGED <<process_queue, version, waiter, next_id, chan, pickup,
                   handler, submissions, sub, enqueued, popped, dropped>>

\* The caller goes away while the call is suspended at an await: the future
\* is dropped there, and with it the receiver; nothing after the await runs.
Abandon(b) ==
    /\ bridge[b].pc \in {"lock1", "recv", "lock2"}
    /\ bridge' = [bridge EXCEPT ![b].pc = "abandoned"]
    /\ UNCHANGED <<process_queue, output_map, version, waiter, lock, next_id,
                   chan, pickup, handler, submissions, sub, enqueued, popped,
                   dropped>>

\* ---------------------------------------------------------- request_handler
PickupStart(p) ==
    /\ pickup[p].pc = "idle"
    /\ pickup' = [pickup EXCEPT ![p].pc = "lock"]
    /\ UNCHANGED <<process_queue, output_map, version, waiter, lock, next_id,
                   chan, bridge, handler, submissions, sub, enqueued, popped,
                   dropped>>

PickupLock(p) ==
    /\ pickup[p].pc = "lock"
    /\ lock = Free
    /\ lock' = <<"pickup", p>>
    /\ pickup' = [pickup EXCEPT ![p].pc = "cs"]
    /\ UNCHANGED <<process_queue, output_map, version, waiter, next_id, chan,
                   bridge, handler, submissions, sub, enqueued, popped, dropped>>

PeekFront(q) == q
PopAll(q) == <<>>
PopFront(q) == Tail(q)
Back(q) == q[Len(q)]
Front(q) == Head(q)

PickupCheck(p) ==
    /\ pickup[p].pc = "cs"
    /\ lock = <<"pickup", p>>
    /\ IF process_queue # <<>>
       THEN /\ pickup' = [pickup EXCEPT
                   ![p].pc = "done",
                   ![p].outcome = <<200, Front(process_queue)>>]
            /\ popped' = Append(popped, Front(process_queue).id)
            /\ process_queue' = PopFront(process_queue)
       ELSE /\ pickup' = [pickup EXCEPT ![p].pc = "wait", ![p].seen = waiter,
                                        ![p].checked_at = version]
            /\ UNCHANGED <<process_queue, popped>>
    /\ lock' = DropGuard(lock)
    /\ UNCHANGED <<output_map, version, waiter, next_id, chan, bridge, handler,
                   submissions, sub, enqueued, dropped>>

PickupChanged(p) ==
    /\ pickup[p].pc = "wait"
    /\ IF TriggerDropped
       THEN pickup' = [pickup EXCEPT
                ![p].pc = "done",
                ![p].outcome = <<500, "Long poll timed out internally">>]
       ELSE /\ version # pickup[p].seen
            /\ pickup' = [pickup EXCEPT ![p].pc = "lock", ![p].seen = version,
                                        ![p].checked_at = 0]
    /\ UNCHANGED <<process_queue, output_map, version, waiter, lock, next_id,
                   chan, bridge, handler, submissions, sub, enqueued, popped,
                   dropped>>

ElapsedEarly(p) == pickup[p].elapsed > 0
Elapsed(p) == pickup[p].elapsed >= LONG_POLL_DURATION

PickupTimeout(p) ==
    /\ pickup[p].pc \in {"lock", "wait"}
    /\ Elapsed(p)
    /\ pickup' = [pickup EXCEPT ![p].pc = "done", ![p].checked_at = 0,
                                ![p].outcome = <<202, "Timeout">>]
    /\ UNCHANGED <<process_queue, output_map, version, waiter, lock, next_id,
                   chan, bridge, handler, submissions, sub, enqueued, popped,
                   dropped>>

Active(p) == pickup[p].pc \in {"lock", "cs", "wait"}

Tick ==
    /\ \E p \in Pickups : Active(p) /\ ~Elapsed(p)
    /\ pickup' = [p \in Pickups |->
                    IF Active(p) /\ ~Elapsed(p)
                    THEN [pickup[p] EXCEPT !.elapsed = @ + TickSeconds]
                    ELSE pickup[p]]
    /\ UNCHANGED <<process_queue, output_map, version, waiter, lock, next_id,
                   chan, bridge, handler, submissions, sub, enqueued, popped,
                   dropped>>

\* --------------------------------------------------------- response_handler
\* identifiers the worker can name: those it was handed, or one never issued
KnownIds == {popped[k] : k \in 1..Len(popped)} \cup UnknownIds

SubmitLock(i, r) ==
    /\ sub.pc = "idle"
    /\ Len(submissions) < MaxSubmits
    /\ lock = Free
    /\ lock' = <<"submit">>
    /\ sub' = [pc |-> "cs", id |-> i, response |-> r]
    /\ UNCHANGED <<process_queue, output_map, version, waiter, next_id, chan,
                   bridge, pickup, handler, submissions, enqueued, popped,
                   dropped>>

Found(i) == i \in DOMAIN output_map

StatusOk(i) == IF Found(i) THEN 200 ELSE 200
StatusGone(i) == IF Found(i) /\ RxAlive(output_map[i]) THEN 200 ELSE 404
Status(i) == IF Found(i) THEN 200 ELSE 404

DeliverNothing(ch, b, r) == ch
DeliverAll(ch, b, r) == [c \in DOMAIN ch |-> Append(ch[c], <<"Ok", r>>)]
Deliver(ch, b, r) == [ch EXCEPT ![b] = Append(@, <<"Ok", r>>)]

SubmitBody ==
    /\ sub.pc = "cs"
    /\ lock = <<"submit">>
    /\ IF Found(sub.id)
       THEN LET b == output_map[sub.id]
            IN IF RxAlive(b)
               THEN /\ chan' = Deliver(chan, b, sub.response)
                    /\ UNCHANGED dropped
               ELSE /\ dropped' = dropped + 1
                    /\ UNCHANGED chan
       ELSE UNCHANGED <<chan, dropped>>
    /\ submissions' = Append(submissions,
           [id |-> sub.id, response |-> sub.response, status |-> Status(sub.id)])
    /\ sub' = [sub EXCEPT !.pc = "idle"]
    /\ lock' = DropGuard(lock)
    /\ UNCHANGED <<process_queue, output_map, version, waiter, next_id, bridge,
                   pickup, handler, enqueued, popped>>

\* ----------------------------------------------------------- gemini_handler
PromptStart(b, has_key) ==
    /\ handler[b].pc = "idle"
    /\ bridge[b].pc = "idle"
    /\ IF has_key
       THEN handler' = [handler EXCEPT ![b].pc = "fetch"]
       ELSE handler' = [handler EXCEPT
                ![b].pc = "done",
                ![b].response = <<500, "Missing GEMINI_API_KEY">>]
    /\ UNCHANGED <<process_queue, output_map, version, waiter, lock, next_id,
                   chan, bridge, pickup, submissions, sub, enqueued, popped,
                   dropped>>

GeminiFetch(b, outcome, text, cursor) ==
    /\ handler[b].pc = "fetch"
    /\ handler[b].calls < MaxFragments
    /\ cursor => handler[b].calls + 1 < MaxFragments
    /\ IF outcome = "ok"
       THEN handler' = [handler EXCEPT
                ![b].full_text = @ \o text,
                ![b].calls = @ + 1,
                ![b].pc = IF cursor THEN "fetch" ELSE "extract"]
       ELSE handler' = [handler EXCEPT
                ![b].pc = "done",
                ![b].response = <<500, outcome>>]
    /\ UNCHANGED <<process_queue, output_map, version, waiter, lock, next_id,
                   chan, bridge, pickup, submissions, sub, enqueued, popped,
                   dropped>>

GeminiExtract(b) ==
    /\ handler[b].pc = "extract"
    /\ LET code_to_run == extract_code(handler[b].full_text)
       IN IF code_to_run[1] = "Some"
          THEN /\ handler' = [handler EXCEPT ![b].pc = "bridge"]
               /\ bridge' = [bridge EXCEPT ![b].pc = "lock1",
                                           ![b].args = code_to_run[2]]
          ELSE /\ handler' = [handler EXCEPT
                      ![b].pc = "done",
                      ![b].response = <<200>> \o handler[b].full_text]
               /\ UNCHANGED bridge
    /\ UNCHANGED <<process_queue, output_map, version, waiter, lock, next_id,
                   chan, pickup, submissions, sub, enqueued, popped, dropped>>

Composite(full_text, output) ==
    <<200, "Gemini 2.5 says:\n">> \o full_text
        \o <<"\n\nRoblox Studio output:\n", output>>

GeminiRespond(b) ==
    /\ handler[b].pc = "bridge"
    /\ bridge[b].pc = "returned"
    /\ handler' = [handler EXCEPT
           ![b].pc = "done",
           ![b].response =
               IF bridge[b].result[1] = "Ok"
               THEN Composite(handler[b].full_text, bridge[b].result[2])
               ELSE <<500, "Failed to run code: ", bridge[b].result[2]>>]
    /\ UNCHANGED <<process_queue, output_map, version, waiter, lock, next_id,
                   chan, bridge, pickup, submissions, sub, enqueued, popped,
                   dropped>>

\* ------------------------------------------------------------ specification
\* the steps of the dispatcher for the bridge calls B and the pickup calls P
Dispatcher(B, P) ==
    \/ \E b \in B : BridgeLock1(b)
    \/ \E b \in B : BridgeEnqueue(b)
    \/ \E b \in B : BridgeRecv(b)
    \/ \E b \in B : BridgeLock2(b)
    \/ \E b \in B : BridgeCleanup(b)
    \/ \E p \in P : PickupStart(p)
    \/ \E p \in P : PickupLock(p)
    \/ \E p \in P : PickupCheck(p)
    \/ \E p \in P : PickupChanged(p)
    \/ \E p \in P : PickupTimeout(p)
    \/ Tick
    \/ \E i \in KnownIds, r \in Payloads : SubmitLock(i, r)
    \/ SubmitBody

Next ==
    \/ \E b \in Bridges, a \in Commands : BridgeCall(b, a)
    \/ Dispatcher(Bridges, Pickups)

Spec == Init /\ [][Next]_vars

\* Scheduling: tokio polls every ready task, its Mutex hands the lock to the
\* waiters in FIFO order, and Timeout checks its deadline whenever the wrapped
\* future yields.  Arrivals of requests are not forced.
Fairness(B, P) ==
    /\ \A b \in B :
          /\ SF_vars(BridgeLock1(b))
          /\ WF_vars(BridgeEnqueue(b))
          /\ WF_vars(BridgeRecv(b))
          /\ SF_vars(BridgeLock2(b))
          /\ WF_vars(BridgeCleanup(b))
    /\ \A p \in P :
          /\ SF_vars(PickupLock(p))
          /\ WF_vars(PickupCheck(p))
          /\ WF_vars(PickupChanged(p))
          /\ SF_vars(PickupTimeout(p))
    /\ WF_vars(Tick)
    /\ WF_vars(SubmitBody)

LiveNext ==
    \/ \E b \in LiveBridges, a \in Commands : BridgeCall(b, a)
    \/ Dispatcher(LiveBridges, LivePickups)

LiveSpec == Init /\ [][LiveNext]_vars /\ Fairness(LiveBridges, LivePickups)

ApiOutcomes == {"ok", "HTTP error", "JSON parse error"}

OrchNext ==
    \/ \E b \in OrchBridges, k \in BOOLEAN : PromptStart(b, k)
    \/ \E b \in OrchBridges, o \in ApiOutcomes, t \in Fragments, c \in BOOLEAN :
           GeminiFetch(b, o, t, c)
    \/ \E b \in OrchBridges : GeminiExtract(b)
    \/ \E b \in OrchBridges : GeminiRespond(b)
    \/ Dispatcher(OrchBridges, OrchPickups)

OrchSpec == Init /\ [][OrchNext]_vars

\* the dispatcher with callers that may go away before their result arrives
AbandonNext ==
    \/ Next
    \/ \E b \in Bridges : Abandon(b)

AbandonSpec == Init /\ [][AbandonNext]_vars

TypeOK ==
    /\ lock \in {Free, <<"submit">>} \cup {<<"bridge", b>> : b \in Bridges}
                \cup {<<"pickup", p>> : p \in Pickups}
    /\ next_id \in 0..NBridge
    /\ version = next_id

\* ------------------------------------------------------------------ claims
IsDone(p) == pickup[p].pc = "done"
FoundItem(p) == IsDone(p) /\ pickup[p].outcome[1] = 200
TimedOut(p) == IsDone(p) /\ pickup[p].outcome[1] = 202
PoppedIds == {popped[k] : k \in 1..Len(popped)}

\* the accepted submissions that named identifier i, oldest first
AcceptedFor(i) ==
    SelectSeq(submissions, LAMBDA s : s.id = i /\ s.status = 200)

\* C1: the identifiers popped by the pickups, in the order of the pops, are a
\* prefix of the identifiers in the order they were pushed by the bridge
\* calls: strict FIFO, nothing reordered, nothing skipped.
C1_Fifo ==
    /\ Len(popped) <= Len(enqueued)
    /\ \A k \in 1..Len(popped) : popped[k] = enqueued[k]

C1_Witness ==
    /\ Len(popped) >= 2
    /\ \E p, q \in Pickups : p # q /\ FoundItem(p) /\ FoundItem(q)

\* C2: a bridge call that has received a value for its identifier i holds
\* Ok with exactly the payload of the submission that was delivered to it,
\* the first one accepted under i, and never a payload accepted under
\* another identifier.
C2_ExactPayload ==
    \A b \in Bridges :
        bridge[b].result # <<>> =>
            /\ AcceptedFor(bridge[b].id) # <<>>
            /\ bridge[b].result = <<"Ok", AcceptedFor(bridge[b].id)[1].response>>

C2_Witness ==
    \E b \in Bridges :
        /\ bridge[b].pc = "returned"
        /\ bridge[b].result[1] = "Ok"
        /\ \E k \in 1..Len(submissions) :
              /\ submissions[k].status = 200
              /\ submissions[k].id # bridge[b].id
              /\ submissions[k].response # bridge[b].result[2]

\* C3: every submission step answers 200 exactly when the correlation table
\* holds an entry for the submitted identifier at that moment, under the
\* lock, and 404 otherwise.
C3_SuccessIffEntry ==
    [][Len(submissions') > Len(submissions) =>
          LET done == submissions'[Len(submissions')]
          IN /\ lock = <<"submit">>
             /\ done.id = sub.id
             /\ done.status \in {200, 404}
             /\ done.status = 200 <=> sub.id \in DOMAIN output_map]_vars

C3_Witness ==
    \E j, k \in 1..Len(submissions) :
        /\ j < k
        /\ submissions[j].id = submissions[k].id
        /\ submissions[j].status = 200
        /\ submissions[k].status = 404

\* C4: for every identifier at most one submission ever succeeds; a second
\* submission for the same identifier is rejected whenever it arrives.
C4_AtMostOneSuccess ==
    \A j, k \in 1..Len(submissions) :
        (j # k /\ submissions[j].id = submissions[k].id)
            => ~(submissions[j].status = 200 /\ submissions[k].status = 200)

\* the first submission accepted under the identifier of bridge call b, a
\* picked-up item, carried payload r
Delivered(b, r) ==
    /\ bridge[b].id \in PoppedIds
    /\ AcceptedFor(bridge[b].id) # <<>>
    /\ AcceptedFor(bridge[b].id)[1].response = r

\* C5: once a submission {id, payload r} for the identifier of a picked-up
\* item has been delivered to bridge call b, the call eventually returns
\* Ok(r): it neither stays blocked nor starves on the lock.
C5_EventuallyReturns ==
    \A b \in Bridges : \A r \in Payloads :
        Delivered(b, r) ~>
            (bridge[b].pc = "returned" /\ bridge[b].result = <<"Ok", r>>)

C5_Witness ==
    \E b \in Bridges : \E p \in Pickups :
        /\ FoundItem(p)
        /\ pickup[p].outcome[2].id = bridge[b].id
        /\ bridge[b].pc = "returned"
        /\ bridge[b].result = <<"Ok", "1">>
        /\ bridge[b].id \notin DOMAIN output_map

\* C6: every pickup call ends; it never ends with the 500 outcome, it ends
\* with 202 only once the long-poll bound has elapsed, and it ends with 202
\* when the queue stays empty.
C6_PickupEnds ==
    /\ [](\A p \in Pickups :
            IsDone(p) =>
                /\ pickup[p].outcome[1] \in {200, 202}
                /\ TimedOut(p) => pickup[p].elapsed >= LONG_POLL_DURATION)
    /\ \A p \in Pickups : Active(p) ~> IsDone(p)
    /\ \A p \in Pickups :
          [](Active(p) /\ [](process_queue = <<>>) => <>TimedOut(p))

C6_Witness ==
    \E p \in Pickups :
        /\ TimedOut(p)
        /\ pickup[p].elapsed >= LONG_POLL_DURATION
        /\ next_id = 0

\* C7 (auxiliary): the only Sender of a bridge's channel is the one stored in
\* the table, and only the bridge's own cleanup removes it, so no bridge call
\* ever observes its channel closed.
NeverChannelClosed ==
    \A b \in Bridges : bridge[b].result # <<"Err", "ChannelClosed">>

\* pat occurs in text at position i (counted from 1)
OccursAt(text, i, pat) ==
    /\ i + Len(pat) - 1 <= Len(text)
    /\ SubSeq(text, i, i + Len(pat) - 1) = pat

\* a text holds a tagged fenced block: an opening fence with the language
\* tag, and a closing fence somewhere after the tag
HasTaggedBlock(text) ==
    \E i, j \in 1..Len(text) :
        /\ OccursAt(text, i, OpenFence)
        /\ j >= i + Len(OpenFence)
        /\ OccursAt(text, j, CloseFence)

\* the text between the first opening fence and the closing fence after it
BetweenFences(text) ==
    LET i == CHOOSE i \in 1..Len(text) :
                 /\ OccursAt(text, i, OpenFence)
                 /\ \A k \in 1..(i - 1) : ~OccursAt(text, k, OpenFence)
        j == CHOOSE j \in (i + Len(OpenFence))..Len(text) :
                 /\ OccursAt(text, j, CloseFence)
                 /\ \A k \in (i + Len(OpenFence))..(j - 1) :
                        ~OccursAt(text, k, CloseFence)
    IN Trim(SubSeq(text, i + Len(OpenFence), j - 1))

\* C8: for a generated text with a tagged fenced block, the code handed to
\* the bridge, and enqueued by it, is exactly the trimmed text between the
\* two fences, without the fences and without the language tag.
C8_ExtractsBlockBody ==
    \A b \in Bridges :
        (handler[b].pc = "bridge" /\ HasTaggedBlock(handler[b].full_text)) =>
            /\ bridge[b].args = BetweenFences(handler[b].full_text)
            /\ \A k \in 1..Len(process_queue) :
                  process_queue[k].id = bridge[b].id =>
                      process_queue[k].args = BetweenFences(handler[b].full_text)

\* C9: the orchestrator enters the bridge exactly when the accumulated text
\* holds a tagged fenced block; otherwise it answers 200 with the text
\* verbatim and leaves the queue, the table and the notifier as they were.
C9_BridgeIffBlock ==
    [][\A b \in Bridges :
          /\ (handler[b].pc = "extract" /\ handler'[b].pc # "extract") =>
                IF HasTaggedBlock(handler[b].full_text)
                THEN /\ handler'[b].pc = "bridge"
                     /\ bridge'[b].pc = "lock1"
                ELSE /\ handler'[b].pc = "done"
                     /\ handler'[b].response = <<200>> \o handler[b].full_text
                     /\ bridge'[b] = bridge[b]
                     /\ UNCHANGED <<process_queue, output_map, version, waiter>>
          /\ (bridge[b].pc = "idle" /\ bridge'[b].pc # "idle") =>
                /\ handler[b].pc = "extract"
                /\ HasTaggedBlock(handler[b].full_text)]_vars

C9_Witness ==
    \E b \in Bridges :
        /\ handler[b].pc = "done"
        /\ handler[b].response = <<200>> \o handler[b].full_text
        /\ Find(handler[b].full_text, OpenFence)[1] = "Some"
        /\ bridge[b].pc = "idle"

\* C10: no item is handed to two pickup calls, the queue never holds an item
\* twice, and an item that was popped is never in the queue again.
C10_NoDuplicateDelivery ==
    /\ \A j, k \in 1..Len(popped) : j # k => popped[j] # popped[k]
    /\ \A p, q \in Pickups :
          (p # q /\ FoundItem(p) /\ FoundItem(q))
              => pickup[p].outcome[2].id # pickup[q].outcome[2].id
    /\ \A j, k \in 1..Len(process_queue) :
          j # k => process_queue[j].id # process_queue[k].id
    /\ \A k \in 1..Len(process_queue) : process_queue[k].id \notin PoppedIds

\* two pickups were woken by one enqueue: one took the item, the other
\* found the queue empty again
C10_Witness ==
    \E p, q \in Pickups :
        /\ p # q
        /\ next_id = 1
        /\ FoundItem(p)
        /\ pickup[p].seen = 1
        /\ pickup[q].pc = "wait"
        /\ process_queue = <<>>

QueueIds == {process_queue[k].id : k \in 1..Len(process_queue)}
Waiting(p) == pickup[p].pc = "wait"

C12_ResumesOnlyOnFire ==
    [][\A p \in Pickups :
          (Waiting(p) /\ pickup'[p].pc = "lock")
              => version > pickup[p].checked_at]_vars

\* the bridge call that generated identifier i has removed its entry
CleanedUp(i) ==
    \E b \in Bridges : bridge[b].id = i /\ bridge[b].pc = "returned"

\* C13: the push of an item and the creation of its correlation entry are
\* one step for every observer: an identifier that is in the queue or was
\* handed to a pickup has its entry (until its own call removes it), and
\* every entry belongs to an identifier whose item was pushed.
C13_EnqueueAtomic ==
    /\ \A i \in QueueIds \cup PoppedIds :
          i \in DOMAIN output_map \/ CleanedUp(i)
    /\ \A i \in DOMAIN output_map :
          \E k \in 1..Len(enqueued) : enqueued[k] = i
    /\ \A b \in Bridges :
          bridge[b].pc \in {"idle", "lock1", "cs1"} =>
              /\ bridge[b].id \notin DOMAIN output_map
              /\ bridge[b].id \notin QueueIds

C13_Witness ==
    \E b, c \in Bridges :
        /\ bridge[b].pc = "recv"
        /\ bridge[b].id \in PoppedIds
        /\ bridge[b].id \in DOMAIN output_map
        /\ bridge[c].id \in QueueIds
        /\ bridge[c].id \in DOMAIN output_map
        /\ lock # Free

\* bridge call b has received a value for its identifier
Resolved(b) == bridge[b].pc \in {"lock2", "cs2", "returned"}

C15_OnlyOwnerRemoves ==
    [][/\ Len(submissions') > Len(submissions) =>
             /\ process_queue' = process_queue
             /\ output_map' = output_map
       /\ \A i \in DOMAIN output_map :
             i \notin DOMAIN output_map' =>
                 \E b \in Bridges :
                     /\ bridge[b].id = i
                     /\ output_map[i] = b
                     /\ bridge[b].pc = "cs2"
                     /\ bridge[b].result # <<>>
                     /\ bridge'[b].pc = "returned"]_vars

C15_Witness ==
    /\ \E k \in 1..Len(submissions) :
          /\ submissions[k].status = 200
          /\ submissions[k].id \in DOMAIN output_map
    /\ \E b \in Bridges :
          bridge[b].pc = "returned" /\ bridge[b].id \notin DOMAIN output_map

\* the step finishes a submission that was accepted under identifier i
AcceptedStep(i) ==
    /\ Len(submissions') > Len(submissions)
    /\ submissions'[Len(submissions')].id = i
    /\ submissions'[Len(submissions')].status = 200

\* C16: a pending bridge call for i is completed only through an accepted
\* submission that bears i: a value reaches its channel in no other step,
\* it leaves its wait only with such a value, its result never changes
\* afterwards, and without an accepted submission for i it stays blocked.
C16_OnlyOwnSubmissionCompletes ==
    /\ [](\A b \in Bridges :
            (bridge[b].pc \notin {"idle", "lock1", "cs1", "recv"}
                 \/ chan[b] # <<>>)
                => AcceptedFor(bridge[b].id) # <<>>)
    /\ [][\A b \in Bridges :
             /\ chan'[b] # chan[b] =>
                   \/ AcceptedStep(bridge[b].id)
                   \/ bridge[b].pc = "recv" /\ bridge'[b].pc = "lock2"
             /\ (bridge[b].pc = "recv" /\ bridge'[b].pc # "recv") =>
                   /\ chan[b] # <<>>
                   /\ bridge'[b].result[1] = "Ok"
             /\ bridge[b].result # <<>> =>
                   bridge'[b].result = bridge[b].result]_vars

C16_Witness ==
    \E b, c \in Bridges :
        /\ bridge[b].pc = "recv"
        /\ AcceptedFor(bridge[b].id) = <<>>
        /\ bridge[c].pc = "returned"
        /\ \E k \in 1..Len(submissions) : submissions[k].status = 404
        /\ \E p \in Pickups : TimedOut(p)

\* C17: the lock is held only inside a critical section: never by a bridge
\* call suspended on its result channel or a pickup suspended on the
\* notifier, so while handlers are suspended the lock is free for the
\* others or held by a handler that is about to release it.
C17_NoLockWhileSuspended ==
    /\ \A b \in Bridges :
          lock = <<"bridge", b>> <=> bridge[b].pc \in {"cs1", "cs2"}
    /\ \A p \in Pickups :
          lock = <<"pickup", p>> <=> pickup[p].pc = "cs"
    /\ lock = <<"submit">> <=> sub.pc = "cs"
    /\ \A b \in Bridges : bridge[b].pc = "recv" => lock # <<"bridge", b>>
    /\ \A p \in Pickups : Waiting(p) => lock # <<"pickup", p>>

C17_Witness ==
    \E b \in Bridges : \E p \in Pickups :
        /\ bridge[b].pc = "recv"
        /\ Waiting(p)
        /\ lock = <<"submit">>
        /\ sub.id = bridge[b].id

\* identifiers whose item has been pushed by a bridge call
EnqueuedIds == {enqueued[k] : k \in 1..Len(enqueued)}

\* C18: the keys of the correlation table are exactly the identifiers of the
\* bridge calls that have enqueued their item and not finished their
\* cleanup, each mapped to its own call; a returned call has no entry, and
\* the table never holds more entries than there are unfinished calls.
C18_TableIsPendingCalls ==
    /\ DOMAIN output_map = {i \in EnqueuedIds : ~CleanedUp(i)}
    /\ \A i \in DOMAIN output_map : bridge[output_map[i]].id = i
    /\ \A b \in Bridges :
          bridge[b].pc = "returned" => bridge[b].id \notin DOMAIN output_map
    /\ Cardinality(DOMAIN output_map)
          <= Cardinality({b \in Bridges :
                 bridge[b].pc \in {"recv", "lock2", "cs2", "abandoned"}})

C18_Witness ==
    /\ output_map = <<>>
    /\ Len(enqueued) = NBridge
    /\ \A b \in Bridges : bridge[b].pc = "returned" /\ bridge[b].result[1] = "Ok"

\* pickup calls that ended with a Found response
FoundPickups == {p \in Pickups : FoundItem(p)}

\* C19: the queue loses an item only in the step in which a pickup call
\* ends Found with that item as its body; a pickup that ends TimedOut or
\* InternalError leaves the queue as it was; so every pushed item is either
\* still queued or is the body of exactly one Found response.
C19_PopOnlyIntoFound ==
    /\ [][/\ (process_queue' # process_queue
                 /\ Len(process_queue') <= Len(process_queue)) =>
                \E p \in Pickups :
                    /\ pickup[p].pc = "cs"
                    /\ pickup'[p].pc = "done"
                    /\ pickup'[p].outcome = <<200, Head(process_queue)>>
                    /\ process_queue' = Tail(process_queue)
          /\ \A p \in Pickups :
                (~IsDone(p) /\ IsDone(p)' /\ pickup'[p].outcome[1] # 200) =>
                    /\ process_queue' = process_queue
                    /\ popped' = popped]_vars
    /\ [](/\ \A i \in EnqueuedIds :
                \/ i \in QueueIds
                \/ \E p \in FoundPickups : pickup[p].outcome[2].id = i
          /\ Len(process_queue) + Cardinality(FoundPickups) = Len(enqueued)
          /\ Len(popped) = Cardinality(FoundPickups))

C19_Witness ==
    \E p, q \in Pickups :
        /\ TimedOut(p)
        /\ FoundItem(q)
        /\ process_queue # <<>>
        /\ Len(enqueued) = Len(process_queue) + 1

\* the receiving side of the entry under identifier i has gone away
ReceiverGone(i) == Found(i) /\ ~RxAlive(output_map[i])

\* C20: a submission for an identifier whose entry exists but whose
\* receiver is gone is answered 200; the step only counts the dropped
\* delivery, puts nothing in any channel and leaves the table, the queue and
\* every bridge call as they were; the entry of an abandoned call stays.
C20_DroppedDeliveryIsSuccess ==
    /\ [][(Len(submissions') > Len(submissions) /\ ReceiverGone(sub.id)) =>
             /\ submissions'[Len(submissions')].id = sub.id
             /\ submissions'[Len(submissions')].status = 200
             /\ dropped' = dropped + 1
             /\ chan' = chan
             /\ output_map' = output_map
             /\ process_queue' = process_queue
             /\ bridge' = bridge]_vars
    /\ [][dropped' # dropped =>
             Len(submissions') > Len(submissions) /\ ReceiverGone(sub.id)]_vars
    /\ [](\A b \in Bridges :
            (bridge[b].pc = "abandoned" /\ bridge[b].id \in EnqueuedIds)
                => (Found(bridge[b].id) /\ ReceiverGone(bridge[b].id)))

C20_Witness ==
    /\ dropped > 0
    /\ sub.pc = "idle"
    /\ Len(submissions) > 0
    /\ LET last == submissions[Len(submissions)]
       IN /\ last.status = 200
          /\ Found(last.id)
          /\ bridge[output_map[last.id]].pc = "abandoned"
          /\ chan[output_map[last.id]] = <<>>
====
